---- MODULE Spec2Model ----
(***************************************************************************)
(* Model of the type representation (module.rs) and of the deriving engine *)
(* (deriving.rs) of the Haskell compiler front end.                        *)
(*                                                                         *)
(* Five specifications share the variables:                               *)
(*   Spec      the deriving engine: generate_deriving called on the data   *)
(*             definitions of a program, appending to the bindings list;   *)
(*   SpecEval  one data definition is derived and the synthesized bodies   *)
(*             are applied to pairs of values of the type;                 *)
(*   SpecType  Type::eq applied to a type and a renaming of it;            *)
(*   SpecModule  the functions of module.rs applied to drawn inputs:       *)
(*             equality and hashing of TypeVariable, Type::new_op with     *)
(*             Type::kind, and tuple_type;                                 *)
(*   SpecGroups  the iterator of binding_groups stepped over a binding     *)
(*             list until it is exhausted.                                 *)
(***************************************************************************)
EXTENDS Integers, Sequences, FiniteSets, TLC

VARIABLES
    bindings,   \* the Vec<Binding> generate_deriving appends to
    pc,         \* "ready", "failed" once fail! has unwound the task, or "done"
                \* once the iterator of binding_groups is exhausted
    err,        \* the message of the failure, "" when there is none
    calls,      \* the generate_deriving calls made so far: <<[data, before]>>
    program,    \* the data definitions of the module being compiled
    res,        \* the last application of a synthesized binding to two values
    ty,         \* SpecType: the type under comparison
    rho,        \* SpecType: the renaming of variable identifiers
    teq,        \* SpecType: the last Type::eq call, [lhs, rhs, result]
    input,      \* SpecModule: the function to call and its arguments
    output,     \* SpecModule: what the call returned
    binds,      \* SpecGroups: the iterator Binds { vec }
    groups      \* SpecGroups: the slices next() has returned so far

vars == <<bindings, pc, err, calls, program, res, ty, rho, teq, input, output, binds, groups>>

(***************************************************************************)
(* Bounds of the model.                                                    *)
(***************************************************************************)
MaxLeaves == 3      \* leaves of a type drawn for Type::eq
MaxCtors == 2       \* constructors of a data definition
MaxArity == 2       \* fields of a constructor
MaxInt == 1         \* field values are 0..MaxInt
MaxCalls == 2       \* generate_deriving calls in one run
MaxDeriving == 2    \* length of a deriving list

None == [none |-> TRUE]

(***************************************************************************)
(* Kinds and types (module.rs).                                            *)
(***************************************************************************)
StarKind == [k |-> "Star"]

KindFunction(a, b) == [k |-> "Fun", l |-> a, r |-> b]

RECURSIVE Kind_new(_)
Kind_new(v) ==
    IF v <= 1 THEN StarKind ELSE KindFunction(StarKind, Kind_new(v - 1))

\* struct TypeVariable { id, kind, age }
MkTypeVariable(id, kind, age) == [id |-> id, kind |-> kind, age |-> age]

\* struct TypeConstructor { name, kind }
MkTypeConstructor(name, kind) == [name |-> name, kind |-> kind]

\* enum Type
TypeVariable(v) == [t |-> "Var", v |-> v]

TypeConstructor(c) == [t |-> "Con", c |-> c]

TypeApplication(l, r) == [t |-> "App", l |-> l, r |-> r]

Generic(v) == [t |-> "Gen", v |-> v]

\* Type::new_var: a variable of kind * and age 0
new_var(id) == TypeVariable(MkTypeVariable(id, StarKind, 0))

RECURSIVE ApplyAll(_, _)
ApplyAll(result, types) ==
    IF types = <<>> THEN result
    ELSE ApplyAll(TypeApplication(result, Head(types)), Tail(types))

\* Type::new_op without the assignment through mut_kind
new_op_star_head(name, types) ==
    ApplyAll(TypeConstructor(MkTypeConstructor(name, StarKind)), types)

\* Type::new_type_kind on a constructor: the kind is set to Kind::new(len + 1),
\* then the constructor is applied to the arguments left to right
new_op(name, types) ==
    ApplyAll(TypeConstructor(MkTypeConstructor(name, Kind_new(Len(types) + 1))), types)

function_type_(func, arg) == new_op("->", <<func, arg>>)

bool_type == new_op("Bool", <<>>)

int_type == new_op("Int", <<>>)

\* try_get_function: (argument, result) of an application of ->, or None
try_get_function(typ) ==
    IF typ.t = "App" /\ typ.l.t = "App" /\ typ.l.l.t = "Con" /\ typ.l.l.c.name = "->"
    THEN [arg |-> typ.l.r, rest |-> typ.r]
    ELSE None

(***************************************************************************)
(* Type equality (module.rs, type_eq and PartialEq for Type).              *)
(* The mapping is a HashMap keyed by the right-hand TypeVariable; its keys *)
(* are compared with the derived PartialEq of TypeVariable (id, kind and   *)
(* age), so a key is the whole record.                                     *)
(***************************************************************************)
EmptyMap == [k \in {} |-> None]

\* type_eq with the correspondence checked in both directions
RECURSIVE type_eq_bijective(_, _, _)
type_eq_bijective(mapping, lhs, rhs) ==
    CASE lhs.t = "Con" /\ rhs.t = "Con" ->
            [ok |-> lhs.c.name = rhs.c.name, mapping |-> mapping]
      [] lhs.t = "Var" /\ rhs.t = "Var" ->
            IF rhs.v \in DOMAIN mapping
            THEN [ok |-> mapping[rhs.v].id = lhs.v.id, mapping |-> mapping]
            ELSE [ok |-> \A k \in DOMAIN mapping : mapping[k].id # lhs.v.id,
                  mapping |-> (rhs.v :> lhs.v) @@ mapping]
      [] lhs.t = "App" /\ rhs.t = "App" ->
            LET first == type_eq_bijective(mapping, lhs.l, rhs.l)
            IN  IF first.ok THEN type_eq_bijective(first.mapping, lhs.r, rhs.r) ELSE first
      [] OTHER -> [ok |-> FALSE, mapping |-> mapping]

RECURSIVE type_eq(_, _, _)
type_eq(mapping, lhs, rhs) ==
    CASE lhs.t = "Con" /\ rhs.t = "Con" ->
            [ok |-> lhs.c.name = rhs.c.name, mapping |-> mapping]
      [] lhs.t = "Var" /\ rhs.t = "Var" ->
            IF rhs.v \in DOMAIN mapping
            THEN [ok |-> mapping[rhs.v].id = lhs.v.id, mapping |-> mapping]
            ELSE [ok |-> TRUE, mapping |-> (rhs.v :> lhs.v) @@ mapping]
      [] lhs.t = "App" /\ rhs.t = "App" ->
            LET first == type_eq(mapping, lhs.l, rhs.l)
            IN  IF first.ok THEN type_eq(first.mapping, lhs.r, rhs.r) ELSE first
      [] OTHER -> [ok |-> FALSE, mapping |-> mapping]

Type_eq(self, other) == type_eq(EmptyMap, self, other).ok

(***************************************************************************)
(* The core AST the engine builds (Expr, Alternative, Pattern, Id, Name).  *)
(***************************************************************************)
Name(name, uid) == [name |-> name, uid |-> uid]

qualified(constraints, typ) == [constraints |-> constraints, value |-> typ]

\* Id::new(name, typ, constraints)
Id_new(name, typ, constraints) == [name |-> name, typ |-> qualified(constraints, typ)]

Identifier(i) == [e |-> "Identifier", id |-> i]

Apply(f, a) == [e |-> "Apply", func |-> f, arg |-> a]

Lambda(i, body) == [e |-> "Lambda", id |-> i, body |-> body]

Case(scrutinee, alts) == [e |-> "Case", scrutinee |-> scrutinee, alts |-> alts]

Alternative(pattern, expression) == [pattern |-> pattern, expression |-> expression]

ConstructorPattern(i, args) == [p |-> "Constructor", id |-> i, args |-> args]

IdentifierPattern(i) == [p |-> "Identifier", id |-> i]

WildCardPattern == [p |-> "WildCard"]

\* Typed::get_type of an expression: the type of an identifier is the type of
\* its Id, the type of an application is the result part of the function's type
RECURSIVE get_type(_)
get_type(expr) ==
    CASE expr.e = "Identifier" -> expr.id.typ.value
      [] expr.e = "Apply" -> get_type(expr.func).r
      [] expr.e = "Case" -> get_type(expr.alts[1].expression)
      [] OTHER -> None

\* NameSupply: a counter; anonymous() advances it and returns the name _a
\* with the new value as uid
NameSupply_new == [unique_id |-> 1]

anonymous(supply) ==
    LET next == [unique_id |-> supply.unique_id + 1]
    IN  [name |-> Name("_a", next.unique_id), supply |-> next]

\* encode_binding_identifier(instancename, bindingname)
encode_binding_identifier(instancename, bindingname) ==
    "#" \o instancename \o bindingname

(***************************************************************************)
(* The deriving engine (deriving.rs).  Every operator that draws from the  *)
(* name supply takes it as its last argument and returns it advanced.      *)
(***************************************************************************)
ordering_type == new_op("Ordering", <<>>)

id(s, typ) == Id_new(Name(s, 0), typ, <<>>)

compare_tags(lhs, rhs) ==
    LET var == new_var("a")
        typ == function_type_(var, function_type_(var, ordering_type))
        i == Id_new(Name("#compare_tags", 0), typ, <<>>)
    IN  Apply(Apply(Identifier(i), lhs), rhs)

binop(op, lhs, rhs, return_type) ==
    LET typ == function_type_(get_type(lhs), function_type_(get_type(rhs), return_type))
        f == Identifier(Id_new(Name(op, 0), typ, <<>>))
    IN  Apply(Apply(f, lhs), rhs)

bool_binop(op, lhs, rhs) == binop(op, lhs, rhs, bool_type)

true_expr == Identifier(Id_new(Name("True", 0), bool_type, <<>>))

\* the argument types collected last to first
RECURSIVE ArgIterator_reversed(_)
ArgIterator_reversed(typ) ==
    LET f == try_get_function(typ)
    IN  IF f = None THEN <<>> ELSE ArgIterator_reversed(f.rest) \o <<f.arg>>

\* ArgIterator collected: the argument types peeled off a curried function type
RECURSIVE ArgIterator(_)
ArgIterator(typ) ==
    LET f == try_get_function(typ)
    IN  IF f = None THEN <<>> ELSE <<f.arg>> \o ArgIterator(f.rest)

RECURSIVE extract_applied_type(_)
extract_applied_type(typ) ==
    IF typ.t = "App" THEN extract_applied_type(typ.l) ELSE typ

\* eq_fold that leaves the fields after the first out
eq_fold_stops(args_l, args_r, i, acc) == acc

\* eq_fields: the left fold of && over the pairwise == tests
RECURSIVE eq_fold(_, _, _, _)
eq_fold(args_l, args_r, i, acc) ==
    IF i > Len(args_l) THEN acc
    ELSE LET test == bool_binop("==", Identifier(args_l[i]), Identifier(args_r[i]))
         IN  eq_fold(args_l, args_r, i + 1, bool_binop("&&", acc, test))

eq_fields(args_l, args_r, supply) ==
    IF Len(args_l) >= 1
    THEN LET first == bool_binop("==", Identifier(args_l[1]), Identifier(args_r[1]))
         IN  [expr |-> eq_fold(args_l, args_r, 2, first), supply |-> supply]
    ELSE [expr |-> true_expr, supply |-> supply]

eq_or_default(cmp, def, supply) ==
    LET a == anonymous(supply)
        match_id == Id_new(a.name, ordering_type, <<>>)
    IN  [expr |-> Case(cmp, <<
                    Alternative(ConstructorPattern(id("EQ", ordering_type), <<>>), def),
                    Alternative(IdentifierPattern(match_id), Identifier(match_id)) >>),
         supply |-> a.supply]

\* ord_fold that leaves the fields before the last out
ord_fold_stops(args_l, args_r, i, acc, supply) == [expr |-> acc, supply |-> supply]

\* ord_fields: the fold over the field pairs in reverse, from the pair before
\* the last one down to the first
RECURSIVE ord_fold(_, _, _, _, _)
ord_fold(args_l, args_r, i, acc, supply) ==
    IF i < 1 THEN [expr |-> acc, supply |-> supply]
    ELSE LET test == bool_binop("compare", Identifier(args_l[i]), Identifier(args_r[i]))
             next(wrapped) == ord_fold(args_l, args_r, i - 1, wrapped.expr, wrapped.supply)
         IN  next(eq_or_default(test, acc, supply))

\* ord_fields folding from the first pair on, so that the last field decides first
RECURSIVE ord_fold_forward(_, _, _, _, _)
ord_fold_forward(args_l, args_r, i, acc, supply) ==
    IF i > Len(args_l) THEN [expr |-> acc, supply |-> supply]
    ELSE LET test == bool_binop("compare", Identifier(args_l[i]), Identifier(args_r[i]))
             next(wrapped) == ord_fold_forward(args_l, args_r, i + 1, wrapped.expr,
                                               wrapped.supply)
         IN  next(eq_or_default(test, acc, supply))

ord_fields_forward(args_l, args_r, supply) ==
    IF Len(args_l) >= 1
    THEN LET first == binop("compare", Identifier(args_l[1]), Identifier(args_r[1]),
                            ordering_type)
         IN  ord_fold_forward(args_l, args_r, 2, first, supply)
    ELSE [expr |-> Identifier(id("EQ", ordering_type)), supply |-> supply]

ord_fields(args_l, args_r, supply) ==
    LET n == Len(args_l)
    IN  IF n >= 1
        THEN LET last == binop("compare", Identifier(args_l[n]), Identifier(args_r[n]),
                               ordering_type)
             IN  ord_fold(args_l, args_r, n - 1, last, supply)
        ELSE [expr |-> Identifier(id("EQ", ordering_type)), supply |-> supply]

\* .map(|arg| Id::new(self.name_supply.anonymous(), arg.clone(), constraints))
RECURSIVE fresh_ids(_, _, _)
fresh_ids(types, constraints, supply) ==
    IF types = <<>> THEN [ids |-> <<>>, supply |-> supply]
    ELSE LET a == anonymous(supply)
             rest == fresh_ids(Tail(types), constraints, a.supply)
         IN  [ids |-> <<Id_new(a.name, Head(types), constraints)>> \o rest.ids,
              supply |-> rest.supply]

\* the callback f of match_same_constructors, passed by name
call_fields(f, args_l, args_r, supply) ==
    IF f = "eq_fields" THEN eq_fields(args_l, args_r, supply)
    ELSE ord_fields(args_l, args_r, supply)

\* the closure of match_same_constructors, for one constructor
\* (args_l, then args_r, then the expression of f, each drawing from the supply
\* the step before it left)
match_constructor(constructor, id_r, f, supply) ==
    LET ctor_id == Id_new(constructor.name, constructor.typ.value, constructor.typ.constraints)
        inner(args_r, expr) == Case(Identifier(id_r), <<
                    Alternative(ConstructorPattern(ctor_id, args_r), expr),
                    Alternative(WildCardPattern,
                                Identifier(Id_new(Name("False", 0), bool_type, <<>>))) >>)
        alternative(l, r, body) ==
            [alt |-> Alternative(ConstructorPattern(ctor_id, l.ids), inner(r.ids, body.expr)),
             supply |-> body.supply]
        with_args_r(l, r) == alternative(l, r, call_fields(f, l.ids, r.ids, r.supply))
        with_args_l(l) ==
            with_args_r(l, fresh_ids(ArgIterator(constructor.typ.value),
                                     constructor.typ.constraints, l.supply))
    IN  with_args_l(fresh_ids(ArgIterator(constructor.typ.value),
                              constructor.typ.constraints, supply))

RECURSIVE match_from(_, _, _, _, _)
match_from(constructors, i, id_r, f, supply) ==
    IF i > Len(constructors) THEN [alts |-> <<>>, supply |-> supply]
    ELSE LET collect(one, rest) == [alts |-> <<one.alt>> \o rest.alts, supply |-> rest.supply]
             next(one) == collect(one, match_from(constructors, i + 1, id_r, f, one.supply))
         IN  next(match_constructor(constructors[i], id_r, f, supply))

match_same_constructors(data, id_r, f, supply) ==
    match_from(data.constructors, 1, id_r, f, supply)

\* the closure generate_eq passes to make_binop
generate_eq_func(data, id_l, id_r, supply) ==
    LET body(alts) == [expr |-> Case(Identifier(id_l), alts.alts), supply |-> alts.supply]
    IN  body(match_same_constructors(data, id_r, "eq_fields", supply))

\* generate_ord's closure without the comparison of the tags
generate_ord_func_no_tags(data, id_l, id_r, supply) ==
    LET body(alts) == [expr |-> Case(Identifier(id_l), alts.alts), supply |-> alts.supply]
    IN  body(match_same_constructors(data, id_r, "ord_fields", supply))

\* the closure generate_ord passes to make_binop
generate_ord_func(data, id_l, id_r, supply) ==
    LET cmp == compare_tags(Identifier(id_l), Identifier(id_r))
        body(alts) == eq_or_default(cmp, Case(Identifier(id_l), alts.alts), alts.supply)
    IN  body(match_same_constructors(data, id_r, "ord_fields", supply))

\* the callback func of make_binop, passed by name
call_func(func, data, id_l, id_r, supply) ==
    IF func = "generate_eq" THEN generate_eq_func(data, id_l, id_r, supply)
    ELSE generate_ord_func(data, id_l, id_r, supply)

\* make_binop naming the binding after the operator alone
make_binop_op_only(funcname, data, func, supply) ==
    LET arg_l == anonymous(supply)
        arg_r == anonymous(arg_l.supply)
        id_r == Id_new(arg_r.name, data.typ.value, data.typ.constraints)
        id_l == Id_new(arg_l.name, data.typ.value, data.typ.constraints)
        binding(body) ==
            [binding |-> [name |-> Name(encode_binding_identifier("", funcname), 0),
                          expression |-> Lambda(id_l, Lambda(id_r, body.expr))],
             supply |-> body.supply]
    IN  binding(call_func(func, data, id_l, id_r, arg_r.supply))

make_binop(funcname, data, func, supply) ==
    LET arg_l == anonymous(supply)
        arg_r == anonymous(arg_l.supply)
        id_r == Id_new(arg_r.name, data.typ.value, data.typ.constraints)
        id_l == Id_new(arg_l.name, data.typ.value, data.typ.constraints)
        data_name == extract_applied_type(data.typ.value).c.name
        name == encode_binding_identifier(data_name, funcname)
        binding(body) ==
            [binding |-> [name |-> Name(name, 0),
                          expression |-> Lambda(id_l, Lambda(id_r, body.expr))],
             supply |-> body.supply]
    IN  binding(call_func(func, data, id_l, id_r, arg_r.supply))

generate_eq(data, supply) == make_binop("==", data, "generate_eq", supply)

generate_ord(data, supply) == make_binop("compare", data, "generate_ord", supply)

\* generate_deriving's loop with the push of the Ord binding left out
RECURSIVE deriving_loop_skips_push(_, _, _, _)
deriving_loop_skips_push(bs, data, i, supply) ==
    IF i > Len(data.deriving) THEN [bindings |-> bs, failed |-> FALSE, message |-> ""]
    ELSE LET push(g) == deriving_loop_skips_push(Append(bs, g.binding), data, i + 1, g.supply)
             skip(g) == deriving_loop_skips_push(bs, data, i + 1, g.supply)
         IN
         CASE data.deriving[i] = "Eq" -> push(generate_eq(data, supply))
           [] data.deriving[i] = "Ord" -> skip(generate_ord(data, supply))
           [] OTHER ->
                [bindings |-> bs, failed |-> TRUE,
                 message |-> "Cannot generate instance for class " \o data.deriving[i]]

\* generate_deriving: the loop over data.deriving from position i on; a class
\* other than Eq and Ord fails and leaves the list as the loop left it
RECURSIVE deriving_loop(_, _, _, _)
deriving_loop(bs, data, i, supply) ==
    IF i > Len(data.deriving) THEN [bindings |-> bs, failed |-> FALSE, message |-> ""]
    ELSE LET push(g) == deriving_loop(Append(bs, g.binding), data, i + 1, g.supply)
         IN
         CASE data.deriving[i] = "Eq" -> push(generate_eq(data, supply))
           [] data.deriving[i] = "Ord" -> push(generate_ord(data, supply))
           [] OTHER ->
                [bindings |-> bs, failed |-> TRUE,
                 message |-> "Cannot generate instance for class " \o data.deriving[i]]

generate_deriving(bs, data) == deriving_loop(bs, data, 1, NameSupply_new)

(***************************************************************************)
(* Data definitions and the values of their types.  The fields of the      *)
(* types whose values are evaluated are of type Int; constructor tags      *)
(* follow the declaration order from 0.                                    *)
(***************************************************************************)
CtorLetters == <<"A", "B", "C", "D", "E", "F">>

RECURSIVE constructor_type(_, _)
constructor_type(arity, result) ==
    IF arity = 0 THEN result
    ELSE function_type_(int_type, constructor_type(arity - 1, result))

\* struct Constructor { name, typ, tag, arity }
Constructor(data_name, i, arity) ==
    [name |-> Name(data_name \o CtorLetters[i], 0),
     typ |-> qualified(<<>>, constructor_type(arity, new_op(data_name, <<>>))),
     tag |-> i - 1,
     arity |-> arity]

\* struct DataDefinition { constructors, typ, deriving }
DataDefinition(data_name, arities, deriving) ==
    [constructors |-> [i \in 1..Len(arities) |-> Constructor(data_name, i, arities[i])],
     typ |-> qualified(<<>>, new_op(data_name, <<>>)),
     deriving |-> deriving]

\* the curried type fields[1] -> ... -> fields[n] -> result
RECURSIVE curried_type(_, _)
curried_type(fields, result) ==
    IF fields = <<>> THEN result
    ELSE function_type_(Head(fields), curried_type(Tail(fields), result))

\* a constructor with the given field types
ConstructorOf(data_name, i, fields) ==
    [name |-> Name(data_name \o CtorLetters[i], 0),
     typ |-> qualified(<<>>, curried_type(fields, new_op(data_name, <<>>))),
     tag |-> i - 1,
     arity |-> Len(fields)]

\* data Pair = PairA Bool [Int] | PairB (Int -> Int) Bool
PairDefinition(deriving) ==
    [constructors |->
        << ConstructorOf("Pair", 1, <<bool_type, new_op("[]", <<int_type>>)>>),
           ConstructorOf("Pair", 2, <<function_type_(int_type, int_type), bool_type>>) >>,
     typ |-> qualified(<<>>, new_op("Pair", <<>>)),
     deriving |-> deriving]

SeqsUpTo(S, n) == UNION {[1..k -> S] : k \in 0..n}

Shapes == SeqsUpTo(0..MaxArity, MaxCtors) \ {<<>>}

Classes == {"Eq", "Ord", "Show"}

DerivingLists == SeqsUpTo(Classes, MaxDeriving)

\* the deriving lists of the definitions whose synthesized bodies are evaluated
EvalDerivings == {<<"Eq", "Ord">>, <<"Ord", "Eq">>}

\* the data definitions of the engine's runs: data Unit = UnitA with every
\* deriving list, and data Shape = ShapeA Int | ShapeB Int Int and data Pair
\* deriving both classes
ProgramDefs ==
    {DataDefinition("Unit", <<0>>, dl) : dl \in DerivingLists}
        \cup {DataDefinition("Shape", <<1, 2>>, dl) : dl \in EvalDerivings}
        \cup {PairDefinition(dl) : dl \in EvalDerivings}

EvalDefs == {DataDefinition("T", sh, dl) : sh \in Shapes, dl \in EvalDerivings}

VInt(n) == [v |-> "int", n |-> n]

VCon(name, tag, fields) == [v |-> "con", name |-> name, tag |-> tag, fields |-> fields]

Fail == [v |-> "fail"]

IntValues == {VInt(n) : n \in 0..MaxInt}

Values(data) ==
    UNION {{VCon(data.constructors[i].name, data.constructors[i].tag, fs) :
                fs \in [1..data.constructors[i].arity -> IntValues]} :
           i \in 1..Len(data.constructors)}

(***************************************************************************)
(* Evaluation of the core expressions the engine builds.  The result is    *)
(* the value together with the trace of the steps taken: one entry per     *)
(* primitive operator applied and per case alternative chosen.             *)
(***************************************************************************)
True == VCon(Name("True", 0), 1, <<>>)

False == VCon(Name("False", 0), 0, <<>>)

LT == VCon(Name("LT", 0), 0, <<>>)

EQ == VCon(Name("EQ", 0), 1, <<>>)

GT == VCon(Name("GT", 0), 2, <<>>)

Globals == {True, False, LT, EQ, GT}

Bool(b) == IF b THEN True ELSE False

Ordering(a, b) == IF a < b THEN LT ELSE IF a > b THEN GT ELSE EQ

\* the primitive operators on evaluated operands: the fields' own == and
\* compare, and the builtin comparing the constructor tags of two values
Primitive(op, a, b) ==
    CASE op = "==" /\ a.v = "int" /\ b.v = "int" -> Bool(a.n = b.n)
      [] op = "compare" /\ a.v = "int" /\ b.v = "int" -> Ordering(a.n, b.n)
      [] op = "#compare_tags" /\ a.v = "con" /\ b.v = "con" -> Ordering(a.tag, b.tag)
      [] OTHER -> Fail

OperandName(expr) == IF expr.e = "Identifier" THEN expr.id.name ELSE None

\* whether the pattern matches the value, and the variables it binds
Matches(pattern, value) ==
    CASE pattern.p = "Constructor" ->
            value.v = "con" /\ value.name = pattern.id.name
                /\ Len(value.fields) = Len(pattern.args)
      [] pattern.p = "Identifier" -> TRUE
      [] OTHER -> TRUE

RECURSIVE BindArgs(_, _, _, _)
BindArgs(args, fields, i, env) ==
    IF i > Len(args) THEN env
    ELSE BindArgs(args, fields, i + 1, (args[i].name :> fields[i]) @@ env)

Bind(pattern, value, env) ==
    CASE pattern.p = "Constructor" -> BindArgs(pattern.args, value.fields, 1, env)
      [] pattern.p = "Identifier" -> (pattern.id.name :> value) @@ env
      [] OTHER -> env

RECURSIVE Eval(_, _)
Eval(expr, env) ==
    CASE expr.e = "Identifier" ->
            IF expr.id.name \in DOMAIN env
            THEN [val |-> env[expr.id.name], trace |-> <<>>]
            ELSE IF \E g \in Globals : g.name = expr.id.name
            THEN [val |-> CHOOSE g \in Globals : g.name = expr.id.name, trace |-> <<>>]
            ELSE [val |-> Fail, trace |-> <<>>]
      [] expr.e = "Apply" ->
            IF expr.func.e = "Apply" /\ expr.func.func.e = "Identifier"
            THEN LET op == expr.func.func.id.name.name
                     lhs == expr.func.arg
                     rhs == expr.arg
                     a == Eval(lhs, env)
                 IN  IF op = "&&"
                     THEN IF a.val # True THEN a
                          ELSE LET b == Eval(rhs, env)
                               IN  [val |-> b.val, trace |-> a.trace \o b.trace]
                     ELSE LET b == Eval(rhs, env)
                          IN  [val |-> Primitive(op, a.val, b.val),
                               trace |-> a.trace \o b.trace \o
                                    <<[op |-> op, l |-> OperandName(lhs),
                                       r |-> OperandName(rhs)]>>]
            ELSE [val |-> Fail, trace |-> <<>>]
      [] expr.e = "Case" ->
            LET s == Eval(expr.scrutinee, env)
                hits == {i \in 1..Len(expr.alts) : Matches(expr.alts[i].pattern, s.val)}
            IN  IF s.val = Fail \/ hits = {}
                THEN [val |-> Fail, trace |-> s.trace]
                ELSE LET i == CHOOSE k \in hits : \A m \in hits : k <= m
                         alt == expr.alts[i]
                         out == Eval(alt.expression, Bind(alt.pattern, s.val, env))
                     IN  [val |-> out.val,
                          trace |-> s.trace \o
                                <<[op |-> "case", l |-> OperandName(expr.scrutinee),
                                   r |-> alt.pattern.p]>> \o out.trace]
      [] OTHER -> [val |-> Fail, trace |-> <<>>]

\* the binding's two-parameter function applied to x and y
ApplyFunction(binding, x, y) ==
    LET outer == binding.expression
        inner == outer.body
    IN  Eval(inner.body, (inner.id.name :> y) @@ (outer.id.name :> x))

(***************************************************************************)
(* The deriving engine as a state machine.                                 *)
(***************************************************************************)
\* a binding of the module that was written by the user
UserBinding ==
    [name |-> Name("main", 0), expression |-> Identifier(id("undefined", int_type))]

Idle ==
    /\ pc = "ready" /\ err = "" /\ calls = <<>> /\ res = None

NoTypes ==
    /\ ty = None /\ rho = None /\ teq = None

NoModuleCalls ==
    /\ input = None /\ output = None /\ binds = None /\ groups = <<>>

Init ==
    /\ bindings \in {<<>>, <<UserBinding>>}
    /\ program = ProgramDefs
    /\ Idle
    /\ NoTypes
    /\ NoModuleCalls

\* one call of generate_deriving(&mut bindings, data)
GenerateDeriving(data) ==
    /\ pc = "ready"
    /\ Len(calls) < MaxCalls
    /\ LET returned(r) ==
                /\ bindings' = r.bindings
                /\ pc' = IF r.failed THEN "failed" ELSE "ready"
                /\ err' = r.message
       IN  returned(generate_deriving(bindings, data))
    /\ calls' = Append(calls, [data |-> data, before |-> bindings])
    /\ UNCHANGED <<program, res, ty, rho, teq, input, output, binds, groups>>

Next == \E data \in program : GenerateDeriving(data)

Spec == Init /\ [][Next]_vars

(***************************************************************************)
(* The synthesized bodies applied to values.                               *)
(***************************************************************************)
InitEval ==
    /\ bindings = <<>>
    /\ program \in {{d} : d \in EvalDefs}
    /\ Idle
    /\ NoTypes
    /\ NoModuleCalls

DeriveOnce ==
    /\ calls = <<>>
    /\ \E data \in program : GenerateDeriving(data)

\* a later pass evaluates binding i of the list on the values x and y
ApplyBinding(i, x, y) ==
    /\ pc = "ready"
    /\ res = None
    /\ res' = [binding |-> i, x |-> x, y |-> y, out |-> ApplyFunction(bindings[i], x, y)]
    /\ UNCHANGED <<bindings, pc, err, calls, program, ty, rho, teq, input, output, binds, groups>>

Evaluate ==
    /\ pc = "ready"
    /\ res = None
    /\ \E i \in 1..Len(bindings) : \E data \in program :
            \E x \in Values(data), y \in Values(data) : ApplyBinding(i, x, y)

NextEval == DeriveOnce \/ Evaluate

SpecEval == InitEval /\ [][NextEval]_vars

(***************************************************************************)
(* Type::eq applied to a type and a renaming of it.                        *)
(***************************************************************************)
VarIds == {"a", "b"}

Ages == {0, 1}

\* the types of kind *: variables, the constructor Int and Generic variables
Leaves ==
    {TypeVariable(MkTypeVariable(i, StarKind, age)) : i \in VarIds, age \in Ages}
        \cup {int_type}
        \cup {Generic(MkTypeVariable(i, StarKind, 0)) : i \in VarIds}

RECURSIVE TypesOfSize(_)
RECURSIVE TypesSplit(_, _)
RECURSIVE TypesUpTo(_, _)
\* the types with n leaves: a leaf, or a function type
TypesOfSize(n) ==
    IF n = 1 THEN Leaves ELSE TypesUpTo(n, n - 1)

\* the function types with n leaves, k of them in the argument
TypesSplit(n, k) ==
    LET args == TypesOfSize(k)
        results == TypesOfSize(n - k)
    IN  {function_type_(arg, result) : arg \in args, result \in results}

\* the function types with n leaves, up to k of them in the argument
TypesUpTo(n, k) ==
    IF k = 0 THEN {} ELSE TypesSplit(n, k) \cup TypesUpTo(n, k - 1)

\* the type drawn for Type::eq has up to MaxLeaves leaves
Types(typ) ==
    \/ typ \in Leaves
    \/ \E n \in 2..MaxLeaves : \E k \in 1..(n - 1) : typ \in TypesSplit(n, k)

Renamings == [VarIds -> VarIds]

Injective(f) == \A i, j \in DOMAIN f : f[i] = f[j] => i = j

\* the type with the identifier of every variable replaced
RECURSIVE Rename(_, _)
Rename(f, typ) ==
    CASE typ.t = "Var" -> TypeVariable([typ.v EXCEPT !.id = f[typ.v.id]])
      [] typ.t = "Gen" -> Generic([typ.v EXCEPT !.id = f[typ.v.id]])
      [] typ.t = "App" -> TypeApplication(Rename(f, typ.l), Rename(f, typ.r))
      [] OTHER -> typ

RECURSIVE HasGeneric(_)
HasGeneric(typ) ==
    CASE typ.t = "Gen" -> TRUE
      [] typ.t = "App" -> HasGeneric(typ.l) \/ HasGeneric(typ.r)
      [] OTHER -> FALSE

RECURSIVE VarIdsOf(_)
VarIdsOf(typ) ==
    CASE typ.t = "Var" -> {typ.v.id}
      [] typ.t = "App" -> VarIdsOf(typ.l) \cup VarIdsOf(typ.r)
      [] OTHER -> {}

InitType ==
    /\ bindings = <<>>
    /\ program = {}
    /\ Idle
    /\ Types(ty)
    /\ rho \in Renamings
    /\ teq = None
    /\ NoModuleCalls

\* T == T', where T' is T renamed
CompareRenamed ==
    /\ teq = None
    /\ teq' = [lhs |-> ty, rhs |-> Rename(rho, ty), result |-> Type_eq(ty, Rename(rho, ty))]
    /\ UNCHANGED <<bindings, pc, err, calls, program, res, ty, rho, input, output, binds,
                   groups>>

\* T' == T, where T' is T renamed
CompareReverse ==
    /\ teq = None
    /\ teq' = [lhs |-> Rename(rho, ty), rhs |-> ty, result |-> Type_eq(Rename(rho, ty), ty)]
    /\ UNCHANGED <<bindings, pc, err, calls, program, res, ty, rho, input, output, binds,
                   groups>>

NextType == CompareRenamed \/ CompareReverse

SpecType == InitType /\ [][NextType]_vars

(***************************************************************************)
(* Functions of module.rs applied to drawn inputs.                         *)
(***************************************************************************)
MaxArgs == 3        \* arguments of a Type::new_op call
MaxTuple == 27      \* tuple_type is called with 0..MaxTuple

TupleLimit == 26    \* assert!(n < 26)

\* equality of TypeVariable compared by identifier alone
TypeVariable_eq_by_id(a, b) == a.id = b.id

\* #[deriving(PartialEq)] on TypeVariable: field by field
TypeVariable_eq(a, b) == a.id = b.id /\ a.kind = b.kind /\ a.age = b.age

\* Hash for TypeVariable: what the value feeds to the hasher state
TypeVariable_hash(v) == <<v.id>>

\* Type::kind; Fail when the left operand of an application has not the kind
\* of a function
RECURSIVE Type_kind(_)
Type_kind(typ) ==
    CASE typ.t = "Var" -> typ.v.kind
      [] typ.t = "Con" -> typ.c.kind
      [] typ.t = "App" ->
            LET k == Type_kind(typ.l)
            IN  IF k # Fail /\ k.k = "Fun" THEN k.r ELSE Fail
      [] OTHER -> typ.v.kind

\* tuple_name: '(' , one ',' for each i in range(1, n), ')'
RECURSIVE push_commas(_, _, _)
push_commas(ident, i, n) ==
    IF i < n THEN push_commas(ident \o ",", i + 1, n) ELSE ident

\* tuple_name with a comma for each of the n components
tuple_name_n_commas(n) == push_commas("(", 0, n) \o ")"

tuple_name(n) == push_commas("(", 1, n) \o ")"

\* (('a' as u8) + i as u8) as char, for i in 0..25
Letters ==
    << "a", "b", "c", "d", "e", "f", "g", "h", "i", "j", "k", "l", "m",
       "n", "o", "p", "q", "r", "s", "t", "u", "v", "w", "x", "y", "z" >>

\* the second loop of tuple_type: i from n - 1 down to 0, the type of one
\* turn being built before the next turn starts
RECURSIVE tuple_wrap(_, _)
tuple_wrap(typ, i) ==
    IF i < 0 THEN typ
    ELSE CHOOSE result \in
            {tuple_wrap(t, i - 1) :
                t \in {function_type_(Generic(new_var(Letters[i + 1]).v), typ)}} : TRUE

\* tuple_type(n): (name, type), or Fail when the assertion fails
tuple_type(n) ==
    IF ~(n < TupleLimit) THEN Fail
    ELSE LET var_list == [i \in 1..n |-> Generic(new_var(Letters[i]).v)]
             ident == tuple_name(n)
         IN  [name |-> ident, typ |-> tuple_wrap(new_op(ident, var_list), n - 1)]

Kinds == {Kind_new(1), Kind_new(2)}

TypeVariables == {MkTypeVariable(i, k, age) : i \in VarIds, k \in Kinds, age \in Ages}

\* argument types of the new_op calls: of kind * and not
ArgTypes ==
    {int_type, new_var("a"), function_type_(int_type, new_var("a")),
     TypeConstructor(MkTypeConstructor("[]", Kind_new(2)))}

OpNames == {"T", "->"}

ModuleInputs ==
    {[fn |-> "TypeVariable::eq", a |-> v, b |-> w] : v \in TypeVariables, w \in TypeVariables}
        \cup {[fn |-> "new_op", name |-> name, types |-> types] :
                name \in OpNames, types \in SeqsUpTo(ArgTypes, MaxArgs)}
        \cup {[fn |-> "tuple_type", n |-> n] : n \in 0..MaxTuple}

InitModule ==
    /\ bindings = <<>>
    /\ program = {}
    /\ Idle
    /\ NoTypes
    /\ input \in ModuleInputs
    /\ output = None
    /\ binds = None
    /\ groups = <<>>

\* a == b and the hashes of a and b
CompareVariables ==
    /\ input.fn = "TypeVariable::eq"
    /\ output = None
    /\ output' = [eq |-> TypeVariable_eq(input.a, input.b),
                  hash_a |-> TypeVariable_hash(input.a),
                  hash_b |-> TypeVariable_hash(input.b)]
    /\ UNCHANGED <<bindings, pc, err, calls, program, res, ty, rho, teq, input, binds, groups>>

\* Type::new_op(name, types), then kind() of the result
NewOp ==
    /\ input.fn = "new_op"
    /\ output = None
    /\ output' = [typ |-> new_op(input.name, input.types),
                  kind |-> Type_kind(new_op(input.name, input.types))]
    /\ UNCHANGED <<bindings, pc, err, calls, program, res, ty, rho, teq, input, binds, groups>>

TupleType ==
    /\ input.fn = "tuple_type"
    /\ output = None
    /\ output' = tuple_type(input.n)
    /\ UNCHANGED <<bindings, pc, err, calls, program, res, ty, rho, teq, input, binds, groups>>

NextModule == CompareVariables \/ NewOp \/ TupleType

SpecModule == InitModule /\ [][NextModule]_vars

(***************************************************************************)
(* binding_groups (module.rs): the iterator Binds stepped by its caller    *)
(* until next() returns None.                                              *)
(***************************************************************************)
MaxBindings == 3    \* bindings of the list given to binding_groups

\* struct Binding { name, arguments, matches, typ }: the name and what tells
\* two bindings of the same name apart
MkBinding(name, matches) == [name |-> name, matches |-> matches]

BindingNames == {"not", "undefined"}

GroupBindings == {MkBinding(name, matches) : name \in BindingNames, matches \in {"False", "True"}}

\* binding_groups(bindings)
binding_groups(bs) == [vec |-> bs]

\* a slice of one binding, whatever follows it
Binds_end_one(vec) == 1

\* position(|bind| bind.name != self.vec[0].name).unwrap_or(self.vec.len())
Binds_end(vec) ==
    IF \E i \in 1..Len(vec) : vec[i].name # vec[1].name
    THEN (CHOOSE i \in 1..Len(vec) :
            /\ vec[i].name # vec[1].name
            /\ \A j \in 1..(i - 1) : vec[j].name = vec[1].name) - 1
    ELSE Len(vec)

\* Binds::next: the Option returned (None, or Some(head)) and the iterator
\* afterwards
Binds_next(self) ==
    IF Len(self.vec) = 0 THEN [some |-> FALSE, item |-> <<>>, self |-> self]
    ELSE [some |-> TRUE,
          item |-> SubSeq(self.vec, 1, Binds_end(self.vec)),
          self |-> [vec |-> SubSeq(self.vec, Binds_end(self.vec) + 1, Len(self.vec))]]

InitGroups ==
    /\ bindings \in SeqsUpTo(GroupBindings, MaxBindings)
    /\ program = {}
    /\ Idle
    /\ NoTypes
    /\ NoModuleCalls

BindingGroups ==
    /\ pc = "ready"
    /\ binds = None
    /\ binds' = binding_groups(bindings)
    /\ UNCHANGED <<bindings, pc, err, calls, program, res, ty, rho, teq, input, output, groups>>

\* one turn of the caller's loop: next() returns a slice, or None and the
\* loop ends
BindsNext ==
    /\ pc = "ready"
    /\ binds # None
    /\ binds' = Binds_next(binds).self
    /\ IF Binds_next(binds).some
       THEN pc' = pc /\ groups' = Append(groups, Binds_next(binds).item)
       ELSE pc' = "done" /\ groups' = groups
    /\ UNCHANGED <<bindings, err, calls, program, res, ty, rho, teq, input, output>>

NextGroups == BindingGroups \/ BindsNext

\* the caller keeps calling next() until it returns None
SpecGroups == InitGroups /\ [][NextGroups]_vars /\ WF_vars(NextGroups)

(***************************************************************************)
(* Properties of the synthesized == and compare (SpecEval).                *)
(***************************************************************************)
ResData == CHOOSE d \in program : TRUE

\* the class binding i was derived for: the list starts empty in SpecEval
ResClass == ResData.deriving[res.binding]

Applied(class) == res # None /\ ResClass = class

SameConstructor == res.x.name = res.y.name

FieldsEqual(x, y) ==
    \A i \in 1..Len(x.fields) : Primitive("==", x.fields[i], y.fields[i]) = True

\* C1: the synthesized == yields True when both values are built with the
\* same constructor and all corresponding fields are equal under the fields'
\* own ==, and False otherwise (True for a constructor without fields).
EqTotality ==
    Applied("Eq") =>
        res.out.val = Bool(SameConstructor /\ FieldsEqual(res.x, res.y))

EqTotalityWitness ==
    /\ Applied("Eq")
    /\ SameConstructor
    /\ Len(res.x.fields) >= 2
    /\ FieldsEqual(res.x, res.y)
    /\ res.out.val = True

\* the left field binders of the alternative of compare's body for the value
OrdLeftArgs(binding, value) ==
    binding.expression.body.body.alts[1].expression.alts[value.tag + 1].pattern.args

FieldIndex(args, name) == CHOOSE j \in 1..Len(args) : args[j].name = name

\* the indices of the field pairs compare was applied to, in order
ComparedFields ==
    LET cmps == SelectSeq(res.out.trace, LAMBDA e : e.op = "compare")
        args == OrdLeftArgs(bindings[res.binding], res.x)
    IN  [k \in 1..Len(cmps) |-> FieldIndex(args, cmps[k].l)]

NonEqFields(x, y) ==
    {i \in 1..Len(x.fields) : Primitive("compare", x.fields[i], y.fields[i]) # EQ}

Least(S) == CHOOSE k \in S : \A m \in S : k <= m

\* C2: for two values of the same constructor compare returns the result of
\* the first field pair that does not compare EQ, and EQ when there is none
\* (also with no fields); no field pair after that pair is evaluated.
OrdLexicographic ==
    (Applied("Ord") /\ SameConstructor) =>
        LET ne == NonEqFields(res.x, res.y)
        IN  IF ne = {}
            THEN res.out.val = EQ
            ELSE /\ res.out.val = Primitive("compare", res.x.fields[Least(ne)],
                                            res.y.fields[Least(ne)])
                 /\ \A k \in 1..Len(ComparedFields) : ComparedFields[k] <= Least(ne)

OrdLexicographicWitness ==
    /\ Applied("Ord")
    /\ SameConstructor
    /\ Len(res.x.fields) >= 2
    /\ 1 \in NonEqFields(res.x, res.y)
    /\ 2 \in NonEqFields(res.x, res.y)
    /\ res.out.val = GT
    /\ ComparedFields = <<1>>

\* C3: for two values of different constructors compare returns the result
\* of the comparison of the tags, LT or GT, whatever the fields are; the case
\* on the left parameter is evaluated only when the tags compare EQ, and the
\* wildcard alternative returning False is never taken.
TagDominance ==
    Applied("Ord") =>
        /\ res.out.val \in {LT, EQ, GT}
        /\ \A k \in 1..Len(res.out.trace) :
                res.out.trace[k].op = "case" => res.out.trace[k].r # "WildCard"
        /\ ~SameConstructor =>
            /\ res.out.val = Ordering(res.x.tag, res.y.tag)
            /\ res.out.val # EQ
            /\ \A k \in 1..Len(res.out.trace) :
                    res.out.trace[k].op = "case" =>
                        res.out.trace[k].l # bindings[res.binding].expression.id.name

TagDominanceWitness ==
    /\ Applied("Ord")
    /\ res.x.tag < res.y.tag
    /\ Len(res.x.fields) >= 1
    /\ Len(res.y.fields) >= 1
    /\ \A i \in 1..Len(res.x.fields) : res.x.fields[i].n = MaxInt
    /\ \A i \in 1..Len(res.y.fields) : res.y.fields[i].n = 0
    /\ res.out.val = LT

\* C4: for a data type deriving both Eq and Ord, compare(x, y) is EQ exactly
\* when x == y is True.
OrdConsistentWithEq ==
    (res # None /\ {"Eq", "Ord"} \subseteq {ResData.deriving[i] : i \in 1..Len(ResData.deriving)}) =>
        LET other == CHOOSE j \in 1..Len(bindings) : ResData.deriving[j] # ResClass
            o == ApplyFunction(bindings[other], res.x, res.y)
        IN  IF ResClass = "Eq"
            THEN (res.out.val = True) <=> (o.val = EQ)
            ELSE (res.out.val = EQ) <=> (o.val = True)

OrdConsistentWithEqWitness ==
    /\ Applied("Ord")
    /\ res.out.val = EQ
    /\ Len(res.x.fields) >= 2
    /\ ApplyFunction(bindings[CHOOSE j \in 1..Len(bindings) : ResData.deriving[j] = "Eq"],
                     res.x, res.y).val = True

(***************************************************************************)
(* Properties of generate_deriving (Spec).                                 *)
(***************************************************************************)
LastCall == calls[Len(calls)]

Supported(class) == class \in {"Eq", "Ord"}

AllSupported(deriving) == \A i \in 1..Len(deriving) : Supported(deriving[i])

\* the classes of a deriving list before its first unsupported one
RECURSIVE SupportedPrefix(_)
SupportedPrefix(deriving) ==
    IF deriving = <<>> \/ ~Supported(Head(deriving)) THEN <<>>
    ELSE <<Head(deriving)>> \o SupportedPrefix(Tail(deriving))

OperatorOf(class) == IF class = "Eq" THEN "==" ELSE "compare"

DataName(data) == extract_applied_type(data.typ.value).c.name

\* C5: when the deriving list holds an unsupported class, generate_deriving
\* fails with a message naming that class and the bindings list holds
\* exactly what it held before the call.
NoBindingOnFailure ==
    pc = "failed" =>
        LET deriving == LastCall.data.deriving
            bad == deriving[Len(SupportedPrefix(deriving)) + 1]
        IN  /\ err = "Cannot generate instance for class " \o bad
            /\ bindings = LastCall.before

\* the message of a failure does name the first unsupported class
FailureNamesClass ==
    pc = "failed" =>
        LET deriving == LastCall.data.deriving
        IN  err = "Cannot generate instance for class "
                    \o deriving[Len(SupportedPrefix(deriving)) + 1]

\* C6: a call whose deriving list holds k supported classes appends exactly
\* k bindings, the i-th being the one synthesized for the i-th class (== for
\* Eq, compare for Ord), and leaves the bindings already in the list
\* unchanged and in place.
AppendsInOrder ==
    (calls # <<>> /\ AllSupported(LastCall.data.deriving)) =>
        LET deriving == LastCall.data.deriving
            n == Len(LastCall.before)
        IN  /\ pc = "ready"
            /\ Len(bindings) = n + Len(deriving)
            /\ SubSeq(bindings, 1, n) = LastCall.before
            /\ \A i \in 1..Len(deriving) :
                /\ bindings[n + i].name =
                        Name(encode_binding_identifier(DataName(LastCall.data),
                                                       OperatorOf(deriving[i])), 0)
                /\ bindings[n + i].expression.body.body.scrutinee.e =
                        IF deriving[i] = "Eq" THEN "Identifier" ELSE "Apply"

AppendsInOrderWitness ==
    /\ Len(calls) = 2
    /\ LastCall.before # <<>>
    /\ LastCall.data.deriving = <<"Ord", "Eq">>
    /\ Len(bindings) = Len(LastCall.before) + 2

\* the data type and class every synthesized binding was derived for, in the
\* order of the pushes
RECURSIVE Origins(_)
Origins(cs) ==
    IF cs = <<>> THEN <<>>
    ELSE LET classes == SupportedPrefix(Head(cs).data.deriving)
         IN  [i \in 1..Len(classes) |->
                    [data_name |-> DataName(Head(cs).data), class |-> classes[i]]]
                \o Origins(Tail(cs))

\* the position in the list of the k-th synthesized binding
Synthesized(k) == bindings[Len(bindings) - Len(Origins(calls)) + k]

EncodedName(origin) ==
    Name(encode_binding_identifier(origin.data_name, OperatorOf(origin.class)), 0)

PatternBinders(pattern) ==
    CASE pattern.p = "Constructor" -> [i \in 1..Len(pattern.args) |-> pattern.args[i].name]
      [] pattern.p = "Identifier" -> <<pattern.id.name>>
      [] OTHER -> <<>>

RECURSIVE Binders(_)
RECURSIVE AltBinders(_, _)
Binders(expr) ==
    CASE expr.e = "Lambda" -> <<expr.id.name>> \o Binders(expr.body)
      [] expr.e = "Apply" -> Binders(expr.func) \o Binders(expr.arg)
      [] expr.e = "Case" -> Binders(expr.scrutinee) \o AltBinders(expr.alts, 1)
      [] OTHER -> <<>>

AltBinders(alts, i) ==
    IF i > Len(alts) THEN <<>>
    ELSE PatternBinders(alts[i].pattern) \o Binders(alts[i].expression)
            \o AltBinders(alts, i + 1)

RECURSIVE AllBinders(_)
AllBinders(bs) ==
    IF bs = <<>> THEN <<>> ELSE Binders(Head(bs).expression) \o AllBinders(Tail(bs))

NoDuplicates(seq) == \A i, j \in 1..Len(seq) : i # j => seq[i] # seq[j]

\* C10: no fresh identifier is allocated twice: the identifiers obtained from
\* name_supply.anonymous() over all generate_deriving calls are pairwise
\* different.
FreshIdentifiersDistinct == NoDuplicates(AllBinders(bindings))

(***************************************************************************)
(* Properties of Type::eq (SpecType).                                      *)
(***************************************************************************)
\* C7: a type is equal to every injective renaming of its variables, in
\* particular to itself.
RenamingInvariance ==
    (teq # None /\ Injective(rho)) => teq.result = TRUE

Compared == input.fn = "TypeVariable::eq" /\ output # None

\* C11 as stated: two TypeVariable values with the same identifier compare
\* equal and hash to the same value, whatever their kind and age are
EqualByIdentifier ==
    (Compared /\ input.a.id = input.b.id) =>
        (output.eq /\ output.hash_a = output.hash_b)

\* C11: two TypeVariable values with the same identifier hash to the same
\* value whatever their kind and age are, and they compare equal exactly
\* when identifier, kind and age are all the same; equal values hash alike
HashByIdentifierEqByFields ==
    Compared =>
        /\ (input.a.id = input.b.id) => (output.hash_a = output.hash_b)
        /\ output.eq <=> (input.a = input.b)
        /\ output.eq => (output.hash_a = output.hash_b)

\* C11: the same identifier with another age: same hash, not equal
HashByIdentifierEqByFieldsWitness ==
    /\ Compared
    /\ input.a.id = input.b.id
    /\ input.a.kind = input.b.kind
    /\ input.a.age # input.b.age
    /\ output.hash_a = output.hash_b
    /\ ~output.eq

Built == input.fn = "new_op" /\ output # None

\* the number of arrows of a kind * -> ... -> * -> *
RECURSIVE ArrowsToStar(_)
ArrowsToStar(kind) ==
    IF kind = StarKind THEN 0
    ELSE IF kind.l = StarKind /\ ArrowsToStar(kind.r) >= 0
         THEN 1 + ArrowsToStar(kind.r)
         ELSE -1

\* every application on the spine has a left operand whose kind is an arrow
RECURSIVE SpineWellKinded(_)
SpineWellKinded(typ) ==
    IF typ.t = "App"
    THEN /\ Type_kind(typ.l) # Fail
         /\ Type_kind(typ.l).k = "Fun"
         /\ SpineWellKinded(typ.l)
    ELSE TRUE

\* C12: new_op(name, args) gives the head constructor the kind
\* Kind::new(len(args) + 1), that is len(args) arrows ending in Star; the left
\* operand of every application on the spine has the kind of an arrow, and
\* kind() of the result is Star and does not fail
NewOpWellKinded ==
    Built =>
        LET head == extract_applied_type(output.typ)
        IN  /\ head.t = "Con"
            /\ head.c.name = input.name
            /\ head.c.kind = Kind_new(Len(input.types) + 1)
            /\ ArrowsToStar(head.c.kind) = Len(input.types)
            /\ SpineWellKinded(output.typ)
            /\ output.kind = StarKind

\* C12: a constructor applied to two or more arguments, one of them not of
\* kind *
NewOpWellKindedWitness ==
    /\ Built
    /\ Len(input.types) >= 2
    /\ \E i \in 1..Len(input.types) : Type_kind(input.types[i]) # StarKind
    /\ output.typ.t = "App"
    /\ output.kind = StarKind

Tupled == input.fn = "tuple_type" /\ output # None

\* the Generic variable of the i-th letter, of kind * and age 0
GenericLetter(i) == Generic(MkTypeVariable(Letters[i], StarKind, 0))

\* k commas and the closing parenthesis
RECURSIVE CommasThenClose(_)
CommasThenClose(k) == IF k <= 0 THEN ")" ELSE "," \o CommasThenClose(k - 1)

\* what is left of a curried function type once its arguments are peeled
RECURSIVE Residue(_)
Residue(typ) ==
    IF try_get_function(typ) = None THEN typ ELSE Residue(try_get_function(typ).rest)

\* the arguments a type constructor is applied to, left to right
RECURSIVE SpineArgs(_)
SpineArgs(typ) ==
    IF typ.t = "App" THEN Append(SpineArgs(typ.l), typ.r) ELSE <<>>

\* C13: for n < 26 tuple_type(n) returns the name '(' , n - 1 commas, ')'
\* and the curried function type whose n arguments are the distinct Generic
\* variables a, b, ... in this order and whose result is the constructor of
\* that name applied to the same variables; for n >= 26 the assertion fails
TupleTypeShape ==
    Tupled =>
        IF input.n >= TupleLimit THEN output = Fail
        ELSE /\ output # Fail
             /\ output.name = "(" \o CommasThenClose(input.n - 1)
             /\ Len(ArgIterator(output.typ)) = input.n
             /\ \A i \in 1..input.n : ArgIterator(output.typ)[i] = GenericLetter(i)
             /\ \A i, j \in 1..input.n :
                    (ArgIterator(output.typ)[i] = ArgIterator(output.typ)[j]) => (i = j)
             /\ extract_applied_type(Residue(output.typ)).t = "Con"
             /\ extract_applied_type(Residue(output.typ)).c.name = output.name
             /\ SpineArgs(Residue(output.typ)) = ArgIterator(output.typ)

\* C13: the pair: (,) and a -> b -> (,) a b
TupleTypeShapeWitness ==
    /\ Tupled
    /\ input.n = 2
    /\ output.name = "(,)"
    /\ output.typ =
          function_type_(GenericLetter(1), function_type_(GenericLetter(2),
              TypeApplication(
                  TypeApplication(TypeConstructor(MkTypeConstructor("(,)", Kind_new(3))),
                                  GenericLetter(1)),
                  GenericLetter(2))))

(***************************************************************************)
(* Properties of binding_groups (SpecGroups).                              *)
(***************************************************************************)
RECURSIVE Flatten(_)
Flatten(slices) ==
    IF slices = <<>> THEN <<>> ELSE Head(slices) \o Flatten(Tail(slices))

\* the slices returned so far, followed by what the iterator still holds, are
\* the input list; every slice is a non-empty run of one name, and a slice
\* ends where the name changes
MaximalRuns ==
    binds # None =>
        /\ Flatten(groups) \o binds.vec = bindings
        /\ \A k \in 1..Len(groups) :
                /\ Len(groups[k]) >= 1
                /\ \A i \in 1..Len(groups[k]) : groups[k][i].name = groups[k][1].name
        /\ \A k \in 1..(Len(groups) - 1) :
                groups[k][Len(groups[k])].name # groups[k + 1][1].name
        /\ (groups # <<>> /\ binds.vec # <<>>) =>
                groups[Len(groups)][1].name # binds.vec[1].name
        /\ (pc = "done") => (binds.vec = <<>> /\ Flatten(groups) = bindings)

\* C14: the iterator of binding_groups terminates, and the slices it yields
\* are non-empty, concatenate in order to the input list, hold bindings of
\* one name each, and are maximal: adjacent slices have different names
BindingGroupsMaximalRuns == [](MaximalRuns) /\ <>(pc = "done")

\* C14: a list of three bindings was split in a slice of two and a slice of
\* one, and the iterator is exhausted
BindingGroupsMaximalRunsWitness ==
    /\ pc = "done"
    /\ Len(bindings) = 3
    /\ Len(groups) = 2
    /\ Len(groups[1]) = 2
    /\ groups[1][1] # groups[1][2]

(***************************************************************************)
(* Properties of the alternatives of match_same_constructors (Spec).       *)
(***************************************************************************)
\* the bindings the last call pushed
Pushed == SubSeq(bindings, Len(LastCall.before) + 1, Len(bindings))

\* the alternatives match_same_constructors built for a binding: the case on
\* the left parameter is the body of ==, and the EQ alternative of the tag
\* comparison in the body of compare
SameConstructorAlts(binding) ==
    LET body == binding.expression.body.body
    IN  IF body.scrutinee.e = "Identifier" THEN body.alts
        ELSE body.alts[1].expression.alts

\* the identifiers of the names in a list of Ids
IdNames(ids) == {ids[i].name : i \in 1..Len(ids)}

\* C15: ArgIterator yields the field types f1, ..., fn of a constructor type
\* f1 -> ... -> fn -> R left to right and stops with R as residue; in every
\* alternative of match_same_constructors the left and the right constructor
\* pattern each bind n identifiers, the i-th of type fi, and the two lists
\* share no identifier
FieldsPeeledInOrder ==
    calls # <<>> =>
        \A k \in 1..Len(Pushed) :
            \A c \in 1..Len(LastCall.data.constructors) :
                LET typ == LastCall.data.constructors[c].typ.value
                    n == LastCall.data.constructors[c].arity
                    args == ArgIterator(typ)
                    left == SameConstructorAlts(Pushed[k])[c].pattern
                    right == SameConstructorAlts(Pushed[k])[c].expression.alts[1].pattern
                IN  /\ Len(args) = n
                    /\ curried_type(args, Residue(typ)) = typ
                    /\ Residue(typ) = LastCall.data.typ.value
                    /\ try_get_function(Residue(typ)) = None
                    /\ left.id.name = LastCall.data.constructors[c].name
                    /\ right.id.name = LastCall.data.constructors[c].name
                    /\ Len(left.args) = n
                    /\ Len(right.args) = n
                    /\ \A i \in 1..n :
                            /\ left.args[i].typ.value = args[i]
                            /\ right.args[i].typ.value = args[i]
                    /\ Cardinality(IdNames(left.args)) = n
                    /\ Cardinality(IdNames(right.args)) = n
                    /\ IdNames(left.args) \cap IdNames(right.args) = {}

\* C15: compare derived for data Pair, whose second constructor has a first
\* field of a function type and a second field of another type
FieldsPeeledInOrderWitness ==
    /\ calls # <<>>
    /\ DataName(LastCall.data) = "Pair"
    /\ Len(Pushed) = 2
    /\ ArgIterator(LastCall.data.constructors[2].typ.value) =
            <<function_type_(int_type, int_type), bool_type>>
    /\ \E k \in 1..2 :
            LET left == SameConstructorAlts(Pushed[k])[2].pattern
            IN  /\ Pushed[k].expression.body.body.scrutinee.e = "Apply"
                /\ left.args[1].typ.value = function_type_(int_type, int_type)
                /\ left.args[2].typ.value = bool_type

(***************************************************************************)
(* Symmetry of Type::eq (SpecType).                                        *)
(***************************************************************************)
\* C16: Type::eq(S, T) and Type::eq(T, S) return the same result
TypeEqSymmetric ==
    teq # None => (teq.result = Type_eq(teq.rhs, teq.lhs))

(***************************************************************************)
(* Types of the operator identifiers in the synthesized bodies (Spec).     *)
(***************************************************************************)
\* an expression and every expression inside it
RECURSIVE SubExprs(_)
SubExprs(expr) ==
    {expr} \cup
        CASE expr.e = "Lambda" -> SubExprs(expr.body)
          [] expr.e = "Apply" -> SubExprs(expr.func) \cup SubExprs(expr.arg)
          [] expr.e = "Case" ->
                SubExprs(expr.scrutinee)
                    \cup UNION {SubExprs(expr.alts[i].expression) : i \in 1..Len(expr.alts)}
          [] OTHER -> {}

\* an operator identifier applied to two operands
IsBinary(expr) ==
    /\ expr.e = "Apply"
    /\ expr.func.e = "Apply"
    /\ expr.func.func.e = "Identifier"

OpName(expr) == expr.func.func.id.name.name

OpType(expr) == expr.func.func.id.typ.value

\* the result of a type x -> y -> result
BinaryResult(typ) == try_get_function(try_get_function(typ).rest).rest

\* a case whose first alternative is the pattern EQ, as eq_or_default builds
MatchesEQ(expr) ==
    /\ expr.e = "Case"
    /\ expr.alts[1].pattern.p = "Constructor"
    /\ expr.alts[1].pattern.id.name.name = "EQ"

\* every compare applied to a field pair has the type
\* (left field type) -> (right field type) -> Ordering
CompareReturnsOrdering(expr) ==
    (IsBinary(expr) /\ OpName(expr) = "compare") =>
        OpType(expr) =
            function_type_(expr.func.arg.id.typ.value,
                           function_type_(expr.arg.id.typ.value, ordering_type))

\* every == and && has a type whose result is Bool
TestReturnsBool(expr) ==
    (IsBinary(expr) /\ OpName(expr) \in {"==", "&&"}) =>
        BinaryResult(OpType(expr)) = bool_type

\* the scrutinee of every case on EQ has type Ordering
ScrutineeIsOrdering(expr) ==
    MatchesEQ(expr) =>
        (IsBinary(expr.scrutinee) /\ BinaryResult(OpType(expr.scrutinee)) = ordering_type)

\* C17: in the synthesized bodies every compare applied to a field pair has
\* the type (left field type) -> (right field type) -> Ordering, every ==
\* and && has a type whose result is Bool, and every scrutinee matched
\* against the EQ pattern has type Ordering
OperatorTypes ==
    \A k \in 1..Len(bindings) :
        \A expr \in SubExprs(bindings[k].expression) :
            /\ CompareReturnsOrdering(expr)
            /\ TestReturnsBool(expr)
            /\ ScrutineeIsOrdering(expr)

\* the operators of the bodies of == are typed as stated
EqOperatorTypes ==
    \A k \in 1..Len(bindings) :
        \A expr \in SubExprs(bindings[k].expression) : TestReturnsBool(expr)

\* the compare of the last field pair of a constructor is typed as stated
LastCompareReturnsOrdering ==
    \A k \in 1..Len(bindings) :
        \A expr \in SubExprs(bindings[k].expression) :
            (MatchesEQ(expr) /\ ~MatchesEQ(expr.alts[1].expression)
                /\ IsBinary(expr.alts[1].expression)) =>
                    CompareReturnsOrdering(expr.alts[1].expression)

====
